---- MODULE Spec2Model ----
(***************************************************************************)
(* Recording-session lifecycle of theway3.py: the interactive command loop *)
(* of main(), theway.start_recording / stop_recording / signal_handler,   *)
(* the connection setup setup_wifi_adb_simple and the background thread    *)
(* continuous_recording with its segment routine simple_record_segment.    *)
(*                                                                         *)
(* The main thread and every background thread advance one statement that *)
(* touches shared state or the device bridge at a time.  Every             *)
(* subprocess.run is one step whose result is chosen by the environment:   *)
(* it returns (with an exit status and, where the code captures it, a      *)
(* standard output) or it raises (TimeoutExpired or another exception).    *)
(* Of wall-clock time the code reads one thing, at line 177: whether       *)
(* time.time() - start_time has reached 36000.  The model keeps that as a  *)
(* flag per thread, which the environment sets (CeilingPasses) at any      *)
(* moment after the thread took its start_time, the threads' ceilings      *)
(* passing in the order the threads were started.  A sleep or a blocking   *)
(* call is a point where any amount of time may pass.                      *)
(***************************************************************************)
EXTENDS Integers, Sequences, FiniteSets, TLC

\* ------------------------------------------------------------------ bounds

\* Number of threads start_recording may create in one run of the process.
MaxTasks == 2

\* Bound on the segments begun in one run of the process, all threads
\* together (the code's counters are unbounded).
MaxSegments == 2

\* The polls of the capture wait, range(1740) of line 119, scaled down.
WaitPolls == 2

Tasks == 1..MaxTasks

\* ------------------------------------------------------- the device bridge

\* Files the remote camera directory can list.
Files == {"a.mp4", "b.mp4"}

\* Result of a subprocess.run whose output the code does not read:
\* returned with exit status 0, returned with another status, or raised.
CallResults == {"ok", "nonzero", "raise"}

\* What the code looks for in the output of `adb devices` (lines 54, 58):
\* "wifi"  : contains '<phone_ip>:5555' and 'device';
\* "usb"   : not that, but some line has 'device' and not the address;
\* "none"  : some text, with neither; "empty": no output.
DevicesOut == {"wifi", "usb", "none", "empty"}

\* What the code looks for in the output of `adb connect` (line 74).
ConnectOut == {"connected", "other", "empty"}

\* Output of `adb shell ls .../*.mp4` (line 139), as its non-blank lines.
Listings == {<< >>, <<"a.mp4", "b.mp4">>}

Raised == [st |-> "raise", out |-> "empty"]

DevicesResults == [st : {"ok", "nonzero"}, out : DevicesOut] \cup {Raised}

ConnectResults == [st : {"ok", "nonzero"}, out : ConnectOut] \cup {Raised}

ListResults == [st : {"ok", "nonzero"}, out : Listings]
                 \cup {[st |-> "raise", out |-> << >>]}

\* The kinds of simulated bridge a run is checked against:
\* "any"        : every call may end in any way;
\* "fail_all"   : every call times out, raises, exits non-zero or prints
\*                nothing;
\* "fail_quiet" : as fail_all, and a call that exits non-zero prints none of
\*                the text the code looks for;
\* "seg_fail"   : the setup calls succeed, every call of a segment times
\*                out, raises or exits non-zero.
Bridges == {"any", "fail_all", "fail_quiet", "seg_fail"}

VARIABLES
  mpc,                   \* main thread: where it is in main()'s loop
  is_recording,          \* theway.is_recording
  phone_ip,              \* theway.phone_ip ("" for None)
  after_stop,            \* the command main handled last was a stop
  bridge,                \* the kind of device bridge of this run
  tpc,                   \* per thread: where it is in continuous_recording
  past_ceiling,          \* per thread: time.time() - start_time >= 36000
  segment_count,         \* per thread: local of continuous_recording
  successful_recordings, \* per thread: local of continuous_recording
  poll_i,                \* per thread: the i of the loop of line 119
  seg                    \* per thread: the segment in progress or just ended

vars == <<mpc, is_recording, phone_ip, after_stop, bridge, tpc, past_ceiling,
          segment_count, successful_recordings, poll_i, seg>>

mainVars == <<mpc, is_recording, phone_ip, after_stop>>
taskVars == <<tpc, past_ceiling, segment_count, successful_recordings,
              poll_i, seg>>

\* seg[t]: files   - video_files of line 144;
\*         pulled  - the file handed to `adb pull`, pull - how that call ended;
\*         deleted - the file handed to `adb shell rm`, rm - how that call ended;
\*         result  - what simple_record_segment returned.
NoSeg == [files |-> << >>, pulled |-> "", pull |-> "none",
          deleted |-> "", rm |-> "none", result |-> "none"]

\* The process is alive: main() has neither returned nor died.
ProcAlive == mpc \notin {"exited", "crashed"}

\* A background thread exists and has not left continuous_recording.
Running(t) == tpc[t] \notin {"idle", "done", "killed"}

\* ------------------------------------------- results a bridge may produce

\* `adb devices` (line 52).
DevicesMay(b) ==
  CASE b = "any" -> DevicesResults
    [] b = "fail_all" ->
         {r \in DevicesResults : r.st # "ok" \/ r.out = "empty"}
    [] b = "fail_quiet" ->
         {r \in DevicesResults :
            \/ r.st = "raise"
            \/ r.out = "empty"
            \/ r.st = "nonzero" /\ r.out = "none"}
    [] b = "seg_fail" ->
         {r \in DevicesResults : r.st = "ok" /\ r.out \in {"wifi", "usb"}}

\* `adb tcpip 5555` (line 62); of a returned call the code reads the exit
\* status alone, so "ok" is also the call that exits 0 and prints nothing.
TcpipMay(b) ==
  IF b = "seg_fail" THEN {"ok"} ELSE CallResults

\* `adb connect` (line 71).
ConnectMay(b) ==
  CASE b = "any" -> ConnectResults
    [] b = "fail_all" ->
         {r \in ConnectResults : r.st # "ok" \/ r.out = "empty"}
    [] b = "fail_quiet" ->
         {r \in ConnectResults :
            \/ r.st = "raise"
            \/ r.out = "empty"
            \/ r.st = "nonzero" /\ r.out = "other"}
    [] b = "seg_fail" ->
         {r \in ConnectResults : r.st = "ok" /\ r.out = "connected"}

\* A call of a segment, or the force-stop of line 219, whose output the
\* code does not read.
CallMay(b) ==
  IF b = "any" THEN CallResults ELSE {"nonzero", "raise"}

\* `adb shell ls` (line 139).
ListMay(b) ==
  IF b = "any" THEN ListResults
  ELSE {r \in ListResults : r.st # "ok" \/ r.out = << >>}

\* --------------------------------------------------------------- main()

\* StartAllowed with the test of line 270 always passing.
StartAllowed_Always == TRUE

\* Line 270: `if not recorder.is_recording`.
StartAllowed == ~is_recording

\* Lines 269-270, 276: `start` while is_recording takes the else branch.
CmdStartRejected ==
  /\ mpc = "prompt"
  /\ ~StartAllowed
  /\ mpc' = "start_277"
  /\ after_stop' = FALSE
  /\ UNCHANGED <<is_recording, phone_ip, bridge>>
  /\ UNCHANGED taskVars

\* Line 277: print "Recording already running", back to the prompt.
AlreadyRunning ==
  /\ mpc = "start_277"
  /\ mpc' = "prompt"
  /\ UNCHANGED <<is_recording, phone_ip, after_stop, bridge>>
  /\ UNCHANGED taskVars

\* Lines 269-271, 199-203, 47-49: `start` while not is_recording enters
\* start_recording and setup_wifi_adb_simple; without an address,
\* get_phone_ip (lines 34-41) reads a valid one.
CmdStart ==
  /\ mpc = "prompt"
  /\ StartAllowed
  /\ \E t \in Tasks : tpc[t] = "idle"
  /\ phone_ip' = IF phone_ip = "" THEN "ip" ELSE phone_ip
  /\ mpc' = "setup_52"
  /\ after_stop' = FALSE
  /\ UNCHANGED <<is_recording, bridge>>
  /\ UNCHANGED taskVars

\* AfterDevices with the handler of lines 84-86 returning True.
AfterDevices_ExceptTrue(r) ==
  CASE r.st = "raise" -> "start_206"
    [] r.st # "raise" /\ r.out = "wifi" -> "start_206"
    [] r.st # "raise" /\ r.out = "usb" -> "setup_62"
    [] OTHER -> "start_275"

\* Lines 54-58, 80-86: where setup goes after `adb devices`.  Already
\* listed over WiFi: it returns True.  A device line without the address:
\* on to step 2.  Anything else, or an exception: it returns False.  The
\* exit status is not read.
AfterDevices(r) ==
  CASE r.st = "raise" -> "start_275"
    [] r.st # "raise" /\ r.out = "wifi" -> "start_206"
    [] r.st # "raise" /\ r.out = "usb" -> "setup_62"
    [] OTHER -> "start_275"

\* Line 52: `adb devices`.
SetupDevices ==
  /\ mpc = "setup_52"
  /\ \E r \in DevicesMay(bridge) : mpc' = AfterDevices(r)
  /\ UNCHANGED <<is_recording, phone_ip, after_stop, bridge>>
  /\ UNCHANGED taskVars

\* Lines 62-68: `adb tcpip 5555`; a non-zero exit or an exception: False.
SetupTcpip ==
  /\ mpc = "setup_62"
  /\ \E r \in TcpipMay(bridge) :
       mpc' = IF r = "ok" THEN "setup_71" ELSE "start_275"
  /\ UNCHANGED <<is_recording, phone_ip, after_stop, bridge>>
  /\ UNCHANGED taskVars

\* Lines 71-79: `adb connect`; True when "connected" is in the output.
SetupConnect ==
  /\ mpc = "setup_71"
  /\ \E r \in ConnectMay(bridge) :
       mpc' = IF r.st # "raise" /\ r.out = "connected"
              THEN "start_206" ELSE "start_275"
  /\ UNCHANGED <<is_recording, phone_ip, after_stop, bridge>>
  /\ UNCHANGED taskVars

\* Lines 203-204, 274-275: setup returned False; start_recording returns
\* False and main prints "Failed to start recording".
StartFailed ==
  /\ mpc = "start_275"
  /\ mpc' = "prompt"
  /\ UNCHANGED <<is_recording, phone_ip, after_stop, bridge>>
  /\ UNCHANGED taskVars

\* The thread that start_recording creates next.
NewTask == CHOOSE t \in Tasks : tpc[t] = "idle" /\ \A u \in Tasks : u < t => tpc[u] # "idle"

\* Lines 206-213, 272-273: setup returned True; set the flag, create and
\* start the daemon thread, return True.
StartSpawn ==
  /\ mpc = "start_206"
  /\ is_recording' = TRUE
  /\ tpc' = [tpc EXCEPT ![NewTask] = "init_173"]
  /\ mpc' = "prompt"
  /\ UNCHANGED <<phone_ip, after_stop, bridge, past_ceiling, segment_count,
                 successful_recordings, poll_i, seg>>

\* StopFlag with stop_recording setting the flag instead of clearing it.
StopFlag_Set == TRUE

\* StopFlag with stop_recording flipping the flag.
StopFlag_Toggle == ~is_recording

\* Line 218: what stop_recording gives the flag.
StopFlag == FALSE

\* Lines 279-280, 217-218: `stop` clears the flag, then calls force-stop.
CmdStop ==
  /\ mpc = "prompt"
  /\ is_recording' = StopFlag
  /\ mpc' = "stop_219"
  /\ UNCHANGED <<phone_ip, after_stop, bridge>>
  /\ UNCHANGED taskVars

\* The end of the process takes its daemon threads (line 210) and their
\* locals with it.
ProcessEnds(how) ==
  /\ mpc' = how
  /\ tpc' = [t \in Tasks |-> IF tpc[t] = "idle" THEN "idle" ELSE "killed"]
  /\ past_ceiling' = [t \in Tasks |-> FALSE]
  /\ segment_count' = [t \in Tasks |-> 0]
  /\ successful_recordings' = [t \in Tasks |-> 0]
  /\ poll_i' = [t \in Tasks |-> 0]
  /\ seg' = [t \in Tasks |-> NoSeg]

\* Lines 219, 281: the force-stop call of `stop`.  It has a timeout and no
\* handler: TimeoutExpired (or any exception) leaves stop_recording and
\* main() and ends the process with a traceback.
StopCall ==
  /\ mpc = "stop_219"
  /\ \E r \in CallMay(bridge) :
       IF r = "raise"
       THEN ProcessEnds("crashed") /\ UNCHANGED after_stop
       ELSE mpc' = "prompt" /\ after_stop' = TRUE /\ UNCHANGED taskVars
  /\ UNCHANGED <<is_recording, phone_ip, bridge>>

\* Lines 303-304, 217-218: `exit` or `quit` calls stop_recording.
CmdExit ==
  /\ mpc = "prompt"
  /\ is_recording' = StopFlag
  /\ mpc' = "exit_219"
  /\ after_stop' = FALSE
  /\ UNCHANGED <<phone_ip, bridge>>
  /\ UNCHANGED taskVars

\* Lines 221-224, 217-218: SIGINT or SIGTERM.  The handler runs in the main
\* thread wherever that is, and calls stop_recording.
Signal ==
  /\ mpc \notin {"exit_219", "exited", "crashed"}
  /\ is_recording' = StopFlag
  /\ mpc' = "exit_219"
  /\ after_stop' = FALSE
  /\ UNCHANGED <<phone_ip, bridge>>
  /\ UNCHANGED taskVars

\* Lines 219, 225, 305-306: the force-stop call of exit, quit or the signal
\* handler, then the end of the process: sys.exit(0) or the break of the
\* loop when the call returns, a traceback when it raises.
ExitCall ==
  /\ mpc = "exit_219"
  /\ \E r \in CallMay(bridge) :
       ProcessEnds(IF r = "raise" THEN "crashed" ELSE "exited")
  /\ UNCHANGED <<is_recording, phone_ip, after_stop, bridge>>

\* Lines 283-291, 88-97, 227-232: `status` counts the local files and calls
\* check_connection, which catches every exception.
CmdStatus ==
  /\ mpc = "prompt"
  /\ after_stop' = FALSE
  /\ UNCHANGED <<mpc, is_recording, phone_ip, bridge>>
  /\ UNCHANGED taskVars

\* Lines 293-294, 234-246: `list` prints the local recordings.
CmdList ==
  /\ mpc = "prompt"
  /\ after_stop' = FALSE
  /\ UNCHANGED <<mpc, is_recording, phone_ip, bridge>>
  /\ UNCHANGED taskVars

\* Lines 296-301, 34-41: `ip` reads a valid address.
CmdIp ==
  /\ mpc = "prompt"
  /\ phone_ip' = "ip"
  /\ after_stop' = FALSE
  /\ UNCHANGED <<mpc, is_recording, bridge>>
  /\ UNCHANGED taskVars

\* ------------------------------------------------ simple_record_segment

\* Line 146: latest_video = video_files[-1].
LatestVideo(files) == files[Len(files)]

\* Line 155: the file `adb shell rm` is given.
DeleteTarget(files) == LatestVideo(files)

\* PullSucceeded with the exit status of the pull not looked at.
PullSucceeded_Unchecked(r) == TRUE

\* Line 153: transfer_result.returncode == 0.
PullSucceeded(r) == r = "ok"

\* Lines 185-186: the tally of a segment's outcome.
CountSuccess(n, ok) == IF ok THEN n + 1 ELSE n

\* Lines 157, 160, 163, 165-167 and 185-189: simple_record_segment returns
\* ok (an exception is caught and turned into False) and
\* continuous_recording tallies it.
SegReturn(t, ok, s) ==
  /\ successful_recordings' =
       [successful_recordings EXCEPT ![t] = CountSuccess(@, ok)]
  /\ seg' = [seg EXCEPT
               ![t] = [s EXCEPT !.result = IF ok THEN "true" ELSE "false"]]
  /\ tpc' = [tpc EXCEPT ![t] = "pause_192"]
  /\ UNCHANGED <<past_ceiling, segment_count, poll_i>>

\* A subprocess.run of the segment whose result the code does not read: the
\* segment goes on at `to` when it returns, whatever its exit status, and
\* returns False when it raises.
SegCall(t, from, to) ==
  /\ ProcAlive
  /\ tpc[t] = from
  /\ \E r \in CallMay(bridge) :
       IF r = "raise"
       THEN SegReturn(t, FALSE, seg[t])
       ELSE /\ tpc' = [tpc EXCEPT ![t] = to]
            /\ UNCHANGED <<past_ceiling, segment_count,
                           successful_recordings, poll_i, seg>>
  /\ UNCHANGED mainVars
  /\ UNCHANGED bridge

\* Lines 107-110: launch the camera, sleep 5.
Launch(t) == SegCall(t, "launch_108", "trigger_114")

\* Lines 113-115: the start-trigger KEYCODE_CAMERA, sleep 3.
StartTrigger(t) == SegCall(t, "trigger_114", "wait_119")

\* KeepWaiting with the flag not looked at.
KeepWaiting_Always == TRUE

\* Line 120: the capture wait goes on while the flag is set.
KeepWaiting == is_recording

\* AfterWait with the stop-trigger left out.
AfterWait_SkipStop == "back_133"

\* Lines 126-129: what follows the capture wait, the stop-trigger.
AfterWait == "stop_129"

\* Lines 119-125: one pass of the capture wait: break when the flag is
\* clear, else sleep 1; after the last pass the loop ends.
WaitPoll(t) ==
  /\ ProcAlive
  /\ tpc[t] = "wait_119"
  /\ IF ~KeepWaiting
     THEN /\ tpc' = [tpc EXCEPT ![t] = AfterWait]
          /\ poll_i' = [poll_i EXCEPT ![t] = 0]
     ELSE IF poll_i[t] + 1 >= WaitPolls
     THEN /\ tpc' = [tpc EXCEPT ![t] = AfterWait]
          /\ poll_i' = [poll_i EXCEPT ![t] = 0]
     ELSE /\ poll_i' = [poll_i EXCEPT ![t] = @ + 1]
          /\ UNCHANGED tpc
  /\ UNCHANGED <<past_ceiling, segment_count, successful_recordings, seg>>
  /\ UNCHANGED mainVars
  /\ UNCHANGED bridge

\* Lines 128-130: the stop-trigger KEYCODE_CAMERA, sleep 5.
StopTrigger(t) == SegCall(t, "stop_129", "back_133")

\* Line 133: KEYCODE_BACK.
Back1(t) == SegCall(t, "back_133", "back_134")

\* Lines 134-135: KEYCODE_BACK, sleep 3.
Back2(t) == SegCall(t, "back_134", "list_139")

\* Lines 138-146, 161-163: list the remote files; no file name in the
\* output: "No video file found", return False.
ListFiles(t) ==
  /\ ProcAlive
  /\ tpc[t] = "list_139"
  /\ \E r \in ListMay(bridge) :
       IF r.st = "raise" \/ r.out = << >>
       THEN SegReturn(t, FALSE, seg[t])
       ELSE /\ tpc' = [tpc EXCEPT ![t] = "pull_150"]
            /\ seg' = [seg EXCEPT ![t] = [@ EXCEPT !.files = r.out]]
            /\ UNCHANGED <<past_ceiling, segment_count,
                           successful_recordings, poll_i>>
  /\ UNCHANGED mainVars
  /\ UNCHANGED bridge

\* Lines 150-153, 158-160: pull latest_video; a non-zero exit: "Transfer
\* failed", return False.
Pull(t) ==
  /\ ProcAlive
  /\ tpc[t] = "pull_150"
  /\ \E r \in CallMay(bridge) :
       LET s == [seg[t] EXCEPT
                   !.pulled = LatestVideo(seg[t].files),
                   !.pull = r]
       IN  IF r # "raise" /\ PullSucceeded(r)
           THEN /\ tpc' = [tpc EXCEPT ![t] = "delete_155"]
                /\ seg' = [seg EXCEPT ![t] = s]
                /\ UNCHANGED <<past_ceiling, segment_count,
                               successful_recordings, poll_i>>
           ELSE SegReturn(t, FALSE, s)
  /\ UNCHANGED mainVars
  /\ UNCHANGED bridge

\* DeleteReturned with an exception of the delete swallowed.
DeleteReturned_Always(r) == TRUE

\* Lines 155-157, 165-167: after the delete has returned, whatever its exit
\* status, the segment returns True; when it raised, the handler returns
\* False.
DeleteReturned(r) == r # "raise"

\* Lines 155-157: remove the remote file, return True; the call has a
\* timeout and raises like the others.
Delete(t) ==
  /\ ProcAlive
  /\ tpc[t] = "delete_155"
  /\ \E r \in CallMay(bridge) :
       SegReturn(t, DeleteReturned(r),
                 [seg[t] EXCEPT
                    !.deleted = DeleteTarget(seg[t].files),
                    !.rm = r])
  /\ UNCHANGED mainVars
  /\ UNCHANGED bridge

\* -------------------------------------------------- continuous_recording

\* Lines 173-175: start_time = time.time(); the counters start at 0.
ThreadInit(t) ==
  /\ ProcAlive
  /\ tpc[t] = "init_173"
  /\ tpc' = [tpc EXCEPT ![t] = "loop_177"]
  /\ past_ceiling' = [past_ceiling EXCEPT ![t] = FALSE]
  /\ segment_count' = [segment_count EXCEPT ![t] = 0]
  /\ successful_recordings' = [successful_recordings EXCEPT ![t] = 0]
  /\ UNCHANGED <<poll_i, seg>>
  /\ UNCHANGED mainVars
  /\ UNCHANGED bridge

RECURSIVE SumTo(_, _)
SumTo(f, n) == IF n = 0 THEN 0 ELSE f[n] + SumTo(f, n - 1)

\* Segments begun so far by all threads.
SegmentsBegun == SumTo(segment_count, MaxTasks)

\* LoopCond without the ceiling.
LoopCond_NoCeiling(t) == is_recording

\* LoopCond giving up once a segment has failed.
LoopCond_AbortOnFailure(t) ==
  /\ is_recording
  /\ ~past_ceiling[t]
  /\ successful_recordings[t] = segment_count[t]

\* LoopCond without the flag.
LoopCond_NoFlag(t) == ~past_ceiling[t]

\* Line 177: the condition of the while loop.
LoopCond(t) == is_recording /\ ~past_ceiling[t]

\* NextSegment with the attempt not counted.
NextSegment_NotCounted(n) == n

\* Line 178: segment_count += 1.
NextSegment(n) == n + 1

\* Lines 177-183, 196-197: begin the next segment, or leave the loop and
\* print the summary; start_time is not read again.
LoopCheck(t) ==
  /\ ProcAlive
  /\ tpc[t] = "loop_177"
  /\ IF LoopCond(t)
     THEN /\ SegmentsBegun < MaxSegments
          /\ segment_count' = [segment_count EXCEPT ![t] = NextSegment(@)]
          /\ tpc' = [tpc EXCEPT ![t] = "launch_108"]
          /\ UNCHANGED past_ceiling
     ELSE /\ tpc' = [tpc EXCEPT ![t] = "done"]
          /\ past_ceiling' = [past_ceiling EXCEPT ![t] = FALSE]
          /\ UNCHANGED segment_count
  /\ seg' = [seg EXCEPT ![t] = NoSeg]
  /\ UNCHANGED <<successful_recordings, poll_i>>
  /\ UNCHANGED mainVars
  /\ UNCHANGED bridge

\* Lines 192-194: sleep 5 when the flag is set, then back to line 177.
PauseCheck(t) ==
  /\ ProcAlive
  /\ tpc[t] = "pause_192"
  /\ tpc' = [tpc EXCEPT ![t] = "loop_177"]
  /\ seg' = [seg EXCEPT ![t] = NoSeg]
  /\ UNCHANGED <<past_ceiling, segment_count, successful_recordings, poll_i>>
  /\ UNCHANGED mainVars
  /\ UNCHANGED bridge

\* A thread that took its start_time (line 173) and has been through line
\* 177 once: lines 173-177 do not block, so the first evaluation of the loop
\* condition finds time.time() - start_time far below 36000.
Timed(t) == Running(t) /\ segment_count[t] > 0

\* Lines 173, 177: time.time() moves on and reaches start_time + 36000 of
\* thread t; the ceilings of the threads started before it have passed.
CeilingPasses(t) ==
  /\ ProcAlive
  /\ Timed(t)
  /\ ~past_ceiling[t]
  /\ \A u \in Tasks : (u < t /\ Timed(u)) => past_ceiling[u]
  /\ past_ceiling' = [past_ceiling EXCEPT ![t] = TRUE]
  /\ UNCHANGED <<tpc, segment_count, successful_recordings, poll_i, seg>>
  /\ UNCHANGED mainVars
  /\ UNCHANGED bridge

\* ------------------------------------------------------- specifications

\* Line 13-16, 263: the recorder as constructed, at the first prompt.
InitState ==
  /\ mpc = "prompt"
  /\ is_recording = FALSE
  /\ phone_ip = ""
  /\ after_stop = FALSE
  /\ tpc = [t \in Tasks |-> "idle"]
  /\ past_ceiling = [t \in Tasks |-> FALSE]
  /\ segment_count = [t \in Tasks |-> 0]
  /\ successful_recordings = [t \in Tasks |-> 0]
  /\ poll_i = [t \in Tasks |-> 0]
  /\ seg = [t \in Tasks |-> NoSeg]

Init ==
  /\ InitState
  /\ bridge \in {"any", "fail_all", "fail_quiet"}

MainStep ==
  \/ CmdStartRejected
  \/ AlreadyRunning
  \/ CmdStart
  \/ SetupDevices
  \/ SetupTcpip
  \/ SetupConnect
  \/ StartFailed
  \/ StartSpawn
  \/ CmdStop
  \/ StopCall
  \/ CmdExit
  \/ Signal
  \/ ExitCall
  \/ CmdStatus
  \/ CmdList
  \/ CmdIp

TaskStep(t) ==
  \/ ThreadInit(t)
  \/ LoopCheck(t)
  \/ Launch(t)
  \/ StartTrigger(t)
  \/ WaitPoll(t)
  \/ StopTrigger(t)
  \/ Back1(t)
  \/ Back2(t)
  \/ ListFiles(t)
  \/ Pull(t)
  \/ Delete(t)
  \/ PauseCheck(t)

Next ==
  \/ MainStep
  \/ \E t \in Tasks : TaskStep(t)
  \/ \E t \in Tasks : CeilingPasses(t)

Spec == Init /\ [][Next]_vars

\* The runs in which no stop, exit or signal arrives, against any bridge or
\* against one that succeeds during setup and fails every call of every
\* segment.  A thread is scheduled again and again, each of its calls
\* returns or times out (every subprocess.run of lines 108-155 has a
\* timeout), and time moves on.
InitNoStop ==
  /\ InitState
  /\ bridge \in {"any", "seg_fail"}

NextNoStop ==
  \/ CmdStartRejected
  \/ AlreadyRunning
  \/ CmdStart
  \/ SetupDevices
  \/ SetupTcpip
  \/ SetupConnect
  \/ StartFailed
  \/ StartSpawn
  \/ CmdStatus
  \/ CmdList
  \/ CmdIp
  \/ \E t \in Tasks : TaskStep(t)
  \/ \E t \in Tasks : CeilingPasses(t)

SpecNoStop ==
  /\ InitNoStop
  /\ [][NextNoStop]_vars
  /\ \A t \in Tasks : WF_vars(TaskStep(t))
  /\ \A t \in Tasks : WF_vars(CeilingPasses(t))

\* The runs that last less than ten hours and in which the process is not
\* shut down by exit, quit or a signal, against any bridge.  While some
\* thread can take a step, one of them is scheduled, and each call of a
\* thread returns or times out.
InitStop ==
  /\ InitState
  /\ bridge = "any"

NextStop ==
  \/ CmdStartRejected
  \/ AlreadyRunning
  \/ CmdStart
  \/ SetupDevices
  \/ SetupTcpip
  \/ SetupConnect
  \/ StartFailed
  \/ StartSpawn
  \/ CmdStop
  \/ StopCall
  \/ CmdStatus
  \/ CmdList
  \/ CmdIp
  \/ \E t \in Tasks : TaskStep(t)

SpecStop ==
  /\ InitStop
  /\ [][NextStop]_vars
  /\ WF_vars(\E t \in Tasks : TaskStep(t))

\* ------------------------------------------------------------ properties

\* The program points of one segment, and those of its capture activity
\* (start-trigger, capture wait, stop-trigger, list, pull, delete).
SegPcs == {"launch_108", "trigger_114", "wait_119", "stop_129", "back_133",
           "back_134", "list_139", "pull_150", "delete_155"}

CapturePcs == {"trigger_114", "wait_119", "stop_129", "list_139",
               "pull_150", "delete_155"}

\* Thread t takes a step of its own (the end of the process is none).
Steps(t) ==
  /\ tpc'[t] # "killed"
  /\ tpc'[t] # tpc[t] \/ poll_i'[t] # poll_i[t]

\* C1: at most one background segment-loop thread is running at any time,
\* for every sequence of start and stop commands and every interleaving
\* (stated of the runs against the unconstrained bridge).
C1_AtMostOneTask ==
  bridge = "any" => Cardinality({t \in Tasks : Running(t)}) <= 1

\* C2: once time.time() - start_time of a thread has reached the ceiling,
\* that thread takes no step of capture activity (start-trigger, capture
\* wait, stop-trigger, list, pull, delete) (stated of the runs against the
\* unconstrained bridge).
C2_NoCaptureAfterCeiling ==
  [][\A t \in Tasks :
       (bridge = "any" /\ past_ceiling[t] /\ tpc[t] \in CapturePcs)
         => ~Steps(t)]_vars

\* C3: the step by which a thread leaves its loop leaves is_recording false,
\* also when it leaves because the ceiling was reached and no stop came
\* (stated of the runs against the unconstrained bridge).
C3_LoopExitClearsFlag ==
  [][\A t \in Tasks :
       (bridge = "any" /\ tpc[t] = "loop_177" /\ tpc'[t] = "done")
         => ~is_recording']_vars

\* No start has got past its setup: the flag is clear, no thread was
\* created, and main is not on the way to lines 206-211, nor at a further
\* setup call after the first.
NeverStarted ==
  /\ ~is_recording
  /\ \A t \in Tasks : tpc[t] = "idle"
  /\ mpc \notin {"setup_62", "setup_71", "start_206"}

\* C4 as stated: against a bridge every call of which times out, raises,
\* exits non-zero or prints nothing, start_recording returns failure, the
\* flag stays false and no thread is created.
C4_FailAllNeverStarts ==
  bridge = "fail_all" => ~is_recording /\ \A t \in Tasks : tpc[t] = "idle"

\* C4 as amended: against a bridge every call of which times out, raises,
\* prints nothing, or exits non-zero without printing the text the code
\* looks for, start_recording returns failure at its first call, the flag
\* stays false, no thread is created and no further call is tried.
C4_FailQuietNeverStarts ==
  bridge = "fail_quiet" => NeverStarted

\* A start against the fail_quiet bridge has returned failure.
C4_FailedStart ==
  bridge = "fail_quiet" /\ mpc = "start_275"

\* C5: against a bridge that succeeds during setup and fails every segment,
\* with no stop command, a thread leaves its loop only once the ceiling is
\* reached, it does leave it, and it ends with successful_recordings = 0 and
\* segment_count > 0.
C5_FailingRunEnds ==
  /\ [](\A t \in Tasks :
          (bridge = "seg_fail" /\ tpc[t] = "done")
            => successful_recordings[t] = 0 /\ segment_count[t] > 0)
  /\ [][\A t \in Tasks :
          (bridge = "seg_fail" /\ tpc[t] = "loop_177" /\ tpc'[t] = "done")
            => past_ceiling[t]]_vars
  /\ \A t \in Tasks :
       (bridge = "seg_fail" /\ tpc[t] = "init_173") ~> (tpc[t] = "done")

\* A thread has ended against the seg_fail bridge after two failed segments.
C5_EndedAfterFailures ==
  \E t \in Tasks :
    /\ bridge = "seg_fail"
    /\ tpc[t] = "done"
    /\ segment_count[t] = 2
    /\ successful_recordings[t] = 0

\* C6: in every state of every thread, successful_recordings is at most
\* segment_count.
C6_SuccessAtMostSegments ==
  \A t \in Tasks : successful_recordings[t] <= segment_count[t]

\* A thread has counted a success and a failure.
C6_CountedBoth ==
  \E t \in Tasks : successful_recordings[t] = 1 /\ segment_count[t] = 2

\* C7: is_recording goes from false to true only in the step of
\* start_recording that follows a setup that returned True (lines 206-211),
\* and that step is reached only from a setup call; no stop, ip, status,
\* list, signal or thread step sets the flag.
C7_OnlyStartSetsFlag ==
  [][/\ (~is_recording /\ is_recording')
          => (mpc = "start_206" /\ mpc' = "prompt")
     /\ (mpc # "start_206" /\ mpc' = "start_206")
          => mpc \in {"setup_52", "setup_71"}]_vars

\* start_recording has just set the flag and created a thread.
C7_FlagJustSet ==
  /\ is_recording
  /\ mpc = "prompt"
  /\ \E t \in Tasks : tpc[t] = "init_173"

\* C8: no failed segment ends the thread.  A thread leaves a segment only to
\* line 192 with the outcome recorded, a failure leaving the tally of
\* successes as it was; from line 192 it goes back to line 177; and at line
\* 177, with the flag set and the ceiling not reached, the step it takes
\* begins another segment.
C8_FailureDoesNotAbort ==
  [][\A t \in Tasks :
       /\ (tpc[t] \in SegPcs /\ Steps(t) /\ tpc'[t] \notin SegPcs)
            => /\ tpc'[t] = "pause_192"
               /\ seg'[t].result \in {"true", "false"}
               /\ seg'[t].result = "false"
                    => successful_recordings'[t] = successful_recordings[t]
       /\ (tpc[t] = "pause_192" /\ Steps(t)) => tpc'[t] = "loop_177"
       /\ (tpc[t] = "loop_177" /\ Steps(t) /\ is_recording
             /\ ~past_ceiling[t])
            => /\ tpc'[t] = "launch_108"
               /\ segment_count'[t] = segment_count[t] + 1]_vars

\* A thread whose first segment failed is in its second segment.
C8_SecondSegmentAfterFailure ==
  \E t \in Tasks :
    /\ tpc[t] \in SegPcs
    /\ segment_count[t] = 2
    /\ successful_recordings[t] = 0

\* C9, for the two calls whose result decides or ends the segment: a segment
\* whose pull or delete timed out, raised or exited non-zero is reported as
\* failed.  (The results of the launch, the triggers, the back keys and the
\* listing are not kept by the model; SegCall and ListFiles go on after a
\* non-zero exit all the same.)
C9_BadCallFailsSegment ==
  \A t \in Tasks :
    (bridge = "any" /\ seg[t].result # "none"
       /\ (seg[t].pull \in {"nonzero", "raise"}
             \/ seg[t].rm \in {"nonzero", "raise"}))
      => seg[t].result = "false"

\* C10: the delete is issued only after the pull of the same file returned
\* success in the same segment; a pull that failed or timed out ends the
\* segment as failed, with no second pull and no delete.
C10_DeleteOnlyAfterPull ==
  \A t \in Tasks :
    /\ tpc[t] = "delete_155" => seg[t].pull = "ok"
    /\ seg[t].deleted # ""
         => seg[t].pull = "ok" /\ seg[t].deleted = seg[t].pulled
    /\ seg[t].pull \in {"nonzero", "raise"}
         => /\ tpc[t] = "pause_192"
            /\ seg[t].result = "false"
            /\ seg[t].deleted = ""

\* A delete has been issued.
C10_DeleteIssued ==
  \E t \in Tasks : seg[t].deleted # "" /\ seg[t].pulled = "b.mp4"

\* A pull has failed and the segment has returned.
C10_PullFailed ==
  \E t \in Tasks : seg[t].pull = "nonzero" /\ tpc[t] = "pause_192"

\* C11: a timeout or an exception of the force-stop call of the stop command
\* does not end the command loop: from that call main goes back to the
\* prompt, or a signal takes it to the shutdown path (stated of the runs
\* against the unconstrained bridge).
C11_StopFailureKeepsLoop ==
  [][(bridge = "any" /\ mpc = "stop_219")
       => mpc' \in {"prompt", "exit_219"}]_vars

\* C12: at no time are two threads inside simple_record_segment (stated of
\* the runs against the unconstrained bridge).
C12_NoTwoSegments ==
  bridge = "any" => Cardinality({t \in Tasks : tpc[t] \in SegPcs}) <= 1

\* C13: a start command given while is_recording is true is rejected.  Main
\* enters the connection setup only with the flag clear; with the flag set
\* the command goes to line 277 and back to the prompt, and neither step
\* changes is_recording, phone_ip, or any thread or counter.
C13_StartRejectedWhileRecording ==
  [][/\ (mpc = "prompt" /\ mpc' = "setup_52") => ~is_recording
     /\ (mpc = "prompt" /\ is_recording /\ mpc' \notin {"prompt", "stop_219", "exit_219"})
          => mpc' = "start_277"
     /\ (mpc = "prompt" /\ mpc' = "start_277")
          => /\ is_recording
             /\ UNCHANGED <<is_recording, phone_ip>>
             /\ UNCHANGED taskVars
     /\ (mpc = "start_277" /\ mpc' \notin {"start_277", "exit_219"})
          => /\ mpc' = "prompt"
             /\ UNCHANGED <<is_recording, phone_ip>>
             /\ UNCHANGED taskVars]_vars

\* A start has been rejected while a thread is in its first segment.
C13_RejectedDuringSegment ==
  /\ mpc = "start_277"
  /\ is_recording
  /\ \E t \in Tasks : tpc[t] \in SegPcs /\ segment_count[t] = 1

\* C14: stop is idempotent on the session state.  The step of a stop command
\* that runs line 218 leaves is_recording false and changes nothing else of
\* the session, its force-stop call when it returns changes nothing, and so
\* after a stop, and after a second stop given straight after it (also with
\* no session active), is_recording is false and the rest is as it was.
C14_StopIdempotent ==
  /\ [](after_stop => ~is_recording)
  /\ [][/\ (mpc = "prompt" /\ mpc' = "stop_219")
             => /\ ~is_recording'
                /\ after_stop => UNCHANGED is_recording
                /\ UNCHANGED phone_ip
                /\ UNCHANGED taskVars
        /\ (mpc = "stop_219" /\ mpc' = "prompt")
             => /\ UNCHANGED <<is_recording, phone_ip>>
                /\ UNCHANGED taskVars]_vars

\* A second stop, given straight after a stop, has run line 218 while the
\* thread of the stopped session is still in a segment.
C14_SecondStop ==
  /\ mpc = "stop_219"
  /\ after_stop
  /\ \E t \in Tasks : tpc[t] \in SegPcs

\* C15: with is_recording false, the next poll a thread makes inside the
\* capture wait (it is at most one sleep of 1 second away) takes the break
\* of line 121, and the step that follows is the stop-trigger call; the wait
\* is left in no other way than by that break or after its last pass.
C15_StopCutsWait ==
  [][\A t \in Tasks :
       /\ (tpc[t] = "wait_119" /\ ~is_recording /\ Steps(t))
            => tpc'[t] = "stop_129"
       /\ (tpc[t] = "wait_119" /\ Steps(t) /\ tpc'[t] # "wait_119")
            => /\ tpc'[t] = "stop_129"
               /\ ~is_recording \/ poll_i[t] = WaitPolls - 1
       /\ (tpc[t] = "stop_129" /\ Steps(t))
            => tpc'[t] \in {"back_133", "pause_192"}]_vars

\* A stop command has just cleared the flag while a thread is inside the
\* capture wait, between two polls.
C15_StoppedInsideWait ==
  \E t \in Tasks :
    /\ tpc[t] = "wait_119"
    /\ poll_i[t] = 1
    /\ ~is_recording
    /\ mpc = "stop_219"

\* C16: cooperative cancellation.  A running thread that finds itself with
\* is_recording false leaves its loop (or ends with the process), unless a
\* start has set the flag again before; and a thread begins a segment only
\* with the flag set, so it begins none after a stop that no start followed.
C16_StopEndsTask ==
  /\ \A t \in Tasks :
       (Running(t) /\ ~is_recording) ~> (~Running(t) \/ is_recording)
  /\ [][\A t \in Tasks :
          /\ (tpc[t] = "loop_177" /\ tpc'[t] = "launch_108") => is_recording
          /\ (tpc[t] = "loop_177" /\ Steps(t) /\ ~is_recording)
               => tpc'[t] = "done"]_vars

\* A thread has left its loop after one segment, a stop being the last
\* command main handled.
C16_TaskEndedAfterStop ==
  \E t \in Tasks :
    /\ tpc[t] = "done"
    /\ segment_count[t] = 1
    /\ after_stop
    /\ mpc = "prompt"

\* C17 as stated: a thread sends no start-trigger while is_recording is
\* false, that is after a stop that no start followed, wherever in its cycle
\* the stop found it (stated of the runs against the unconstrained bridge).
C17_NoTriggerAfterStop ==
  [][\A t \in Tasks :
       (bridge = "any" /\ tpc[t] = "trigger_114" /\ Steps(t))
         => is_recording]_vars

\* C17 as amended: after a stop that no start followed a thread begins no
\* segment, so the only start-trigger it can still send is that of the
\* segment it had begun, when the stop found it in the launch or in the
\* delay before the trigger.  The start-trigger is reached from the launch
\* alone, the launch from line 177 with the flag set alone, and from the
\* capture wait, the transfer or the pause with the flag clear a thread goes
\* to neither.
C17_TriggerOnlyInBegunSegment ==
  [][\A t \in Tasks :
       /\ (tpc'[t] = "trigger_114" /\ tpc[t] # "trigger_114")
            => tpc[t] = "launch_108"
       /\ (tpc'[t] = "launch_108" /\ tpc[t] # "launch_108")
            => tpc[t] = "loop_177" /\ is_recording
       /\ (~is_recording /\ Steps(t)
             /\ tpc[t] \in (SegPcs \cup {"pause_192", "loop_177"})
                             \ {"launch_108"})
            => tpc'[t] \notin {"launch_108", "trigger_114"}]_vars

\* A stop has been handled while a thread was in the launch of its segment
\* or in the delay after it, and the thread is about to send the
\* start-trigger.
C17_StoppedBeforeTrigger ==
  \E t \in Tasks :
    /\ tpc[t] = "trigger_114"
    /\ ~is_recording
    /\ after_stop
    /\ mpc = "prompt"

\* The call that follows each call of a segment when that call returns (the
\* capture wait standing between the start-trigger and the stop-trigger).
Following ==
  [p \in SegPcs |->
     CASE p = "launch_108" -> "trigger_114"
       [] p = "trigger_114" -> "wait_119"
       [] p = "wait_119" -> "stop_129"
       [] p = "stop_129" -> "back_133"
       [] p = "back_133" -> "back_134"
       [] p = "back_134" -> "list_139"
       [] p = "list_139" -> "pull_150"
       [] p = "pull_150" -> "delete_155"
       [] p = "delete_155" -> "pause_192"]

\* C18: the calls of a segment come in the order launch, start-trigger,
\* stop-trigger, back key, back key, list, pull, delete: a segment is entered
\* at the launch, and each step of a thread inside it stays in the capture
\* wait, goes on to the call that follows, or returns from the segment.  So
\* list, pull and delete are reached through the stop-trigger alone; and a
\* thread whose start-trigger returned does get to the stop-trigger, whether
\* the wait ran its length or a stop cut it, unless the process ends first.
C18_SegmentCallOrder ==
  /\ [][\A t \in Tasks :
          /\ (tpc[t] \notin SegPcs /\ tpc'[t] \in SegPcs)
               => tpc'[t] = "launch_108"
          /\ (tpc[t] \in SegPcs /\ Steps(t))
               => \/ tpc'[t] = Following[tpc[t]]
                  \/ tpc'[t] = "pause_192"
                  \/ tpc[t] = "wait_119" /\ tpc'[t] = "wait_119"]_vars
  /\ \A t \in Tasks :
       (tpc[t] = "wait_119") ~> (tpc[t] \in {"stop_129", "killed"})

\* A thread has sent the start-trigger, the stop-trigger and the back keys
\* and is at the listing, a stop having been handled meanwhile.
C18_AtListingAfterStop ==
  \E t \in Tasks :
    /\ tpc[t] = "list_139"
    /\ ~is_recording
    /\ after_stop

\* The tally of thread t goes up by one in this step.
Counted(t) == successful_recordings'[t] = successful_recordings[t] + 1

\* C19 as stated: a segment is counted as successful exactly when its pull
\* returned exit status 0, whatever became of the delete.  The tally goes up
\* by one on the return of a segment whose pull returned 0, and is left as
\* it is on the return of any other.
C19_CountedIffPulled ==
  [][\A t \in Tasks :
       (bridge = "any" /\ tpc[t] \in SegPcs /\ tpc'[t] = "pause_192")
         => IF seg'[t].pull = "ok"
            THEN Counted(t)
            ELSE successful_recordings'[t] = successful_recordings[t]]_vars

\* C19 as amended: a segment is counted as successful exactly when its pull
\* returned exit status 0 and the delete call that follows returned, with
\* whatever exit status; a delete that times out or raises makes it a failed
\* segment.  The tally changes on the return of a segment and nowhere else
\* in the life of a thread.
C19_CountedIffPulledAndDeleteReturned ==
  [][\A t \in Tasks :
       /\ (tpc[t] \in SegPcs /\ tpc'[t] = "pause_192")
            => IF seg'[t].pull = "ok" /\ seg'[t].rm \in {"ok", "nonzero"}
               THEN Counted(t)
               ELSE successful_recordings'[t] = successful_recordings[t]
       /\ (successful_recordings'[t] # successful_recordings[t]
             /\ tpc'[t] \notin {"loop_177", "killed", "idle"})
            => tpc[t] = "delete_155" /\ tpc'[t] = "pause_192"]_vars

\* The second segment of a thread, whose pull returned 0 and whose delete
\* exited non-zero, has been counted, the first having failed.
C19_CountedDespiteDelete ==
  \E t \in Tasks :
    /\ tpc[t] = "pause_192"
    /\ seg[t].pull = "ok"
    /\ seg[t].rm = "nonzero"
    /\ segment_count[t] = 2
    /\ successful_recordings[t] = 1

====
